---- MODULE Spec2Model ----
(***************************************************************************)
(* Virtual-timeline playback engine of the ECG editor.                     *)
(*                                                                         *)
(* VirtualPlayerController (utils/virtual-timeline/VirtualPlayerController)*)
(* drives one HTML video element through a virtual timeline.  All times    *)
(* are integers in milliseconds: the controller's seconds are scaled by    *)
(* 1000, performance.now() and the frame timestamps already are ms.        *)
(*                                                                         *)
(* ECGTimelineMapper, VirtualTimelineManager and VirtualSegmentController  *)
(* are imported by the controller but their sources are not part of the    *)
(* tree; the operators that stand for them follow sections 3, 4.1 and 4.2  *)
(* of the design document.                                                 *)
(***************************************************************************)
EXTENDS Integers, Sequences, FiniteSets, TLC

VARIABLES
    now,                        \* performance.now(), ms
    timeline,                   \* timelineMapper.timelineManager.getTimeline()
    video,                      \* this.video: TRUE when an element is attached
    currentVirtualTime,
    isPlaying,
    playbackRate,
    lastFrameTime,
    isRVFCActive,
    rvfcHandle,                 \* TRUE when this.rvfcHandle !== null
    virtualTimeStartTimestamp,
    virtualTimePausedAt,
    isVirtualTimeRunning,
    currentActiveSegment,
    completionArmed,            \* VirtualSegmentController: debounce timer pending
    elCurrentTime,              \* element: currentTime
    elPaused,                   \* element: paused
    elEvents,                   \* element: native events queued for dispatch
    elListeners,                \* element: controller's listeners registered
    elFrameCb,                  \* element: a requestVideoFrameCallback is pending
    rafPending,                 \* number of rafCallback closures queued by requestAnimationFrame
    hasRVFC,                    \* typeof video.requestVideoFrameCallback === 'function'
    bound,                      \* which element the el* variables describe
    other,                      \* the state of the other element of the page
    notified,                   \* subscriber calls made by the last operation, in order
    subscribers,                \* how each subscriber registered for a round behaves
    uncaught,                   \* an exception left a notification round
    lastOp,                     \* the last operation and what it observed
    held,                       \* "paused"/"stopped" since pause()/stop(), else "none"
    seekInFlight,               \* the seek() whose element seek has not settled
    completed,                  \* completion was signalled and no play(), seek(), stop()
                                \* or timeline update has followed
    calls,                      \* commands issued to the controller so far
    query                       \* result of the last pure lookup

ctl == <<currentVirtualTime, isPlaying, playbackRate, lastFrameTime, isRVFCActive,
         rvfcHandle, virtualTimeStartTimestamp, virtualTimePausedAt,
         isVirtualTimeRunning, currentActiveSegment, completionArmed>>
elem == <<elCurrentTime, elPaused, elEvents, elListeners, elFrameCb, rafPending, hasRVFC,
          bound, other>>
hist == <<lastOp, held, seekInFlight, completed, calls>>
reg == <<subscribers, uncaught>>
vars == <<now, timeline, video, ctl, elem, notified, reg, hist, query>>

----------------------------------------------------------------------------
(* Bounds *)

MaxCalls == 4           \* commands the application issues to the controller
MaxNow == 2500          \* the clock stops advancing here
MaxEvents == 2          \* native events that may be queued on the element
MaxRaf == 2             \* rafCallback closures that may be queued
PlayMaxNow == 4000      \* the clock of an uninterrupted playback stops here

(* Program constants *)

FrameProcessingDebounceMs == 16
DriftThresholdMs == 100

StartNow == 1000        \* page age when the controller is constructed
Dt == 500               \* a step of the wall clock
MediaLen == 3500        \* length of the source media

PlaybackRates == {1, 2}
SeekTargets == {0 - 500, 1000, 9000}

Min(a, b) == IF a < b THEN a ELSE b
Max(a, b) == IF a > b THEN a ELSE b
Abs(a) == IF a < 0 THEN 0 - a ELSE a

----------------------------------------------------------------------------
(* Data model: VirtualSegment, VirtualTimeline *)

Seg(id, vs, ve, rs, re, en) ==
    [id |-> id, virtualStartTime |-> vs, virtualEndTime |-> ve,
     realStartTime |-> rs, realEndTime |-> re, isEnabled |-> en]

NoSeg == Seg("none", 0, 0, 0, 0, FALSE)

RECURSIVE LastEnabledEnd(_, _)
LastEnabledEnd(segs, i) ==
    IF i = 0 THEN 0
    ELSE IF segs[i].isEnabled THEN segs[i].virtualEndTime
    ELSE LastEnabledEnd(segs, i - 1)

Duration(segs) == LastEnabledEnd(segs, Len(segs))

Timeline(segs) == [segments |-> segs, duration |-> Duration(segs)]

EnabledIdx(tl) == {i \in 1..Len(tl.segments) : tl.segments[i].isEnabled}

(* Section 3: enabled segments ascending and contiguous from 0 *)
Contiguous(tl) ==
    /\ \A i \in EnabledIdx(tl) :
          tl.segments[i].virtualStartTime < tl.segments[i].virtualEndTime
    /\ \A i \in EnabledIdx(tl) :
          IF \E j \in EnabledIdx(tl) : j < i
          THEN LET p == CHOOSE j \in EnabledIdx(tl) :
                          j < i /\ \A k \in EnabledIdx(tl) : k < i => k <= j
               IN tl.segments[i].virtualStartTime = tl.segments[p].virtualEndTime
          ELSE tl.segments[i].virtualStartTime = 0

----------------------------------------------------------------------------
(* Timelines the editing layer supplies *)

TEmpty == Timeline(<< >>)
TSingle == Timeline(<<Seg("a", 0, 2000, 0, 2000, TRUE)>>)
TSkip == Timeline(<<Seg("a", 0, 1000, 0, 1000, TRUE),
                    Seg("b", 1000, 2000, 2000, 3000, TRUE)>>)
TShort == Timeline(<<Seg("a", 0, 1000, 0, 1000, TRUE),
                     Seg("x", 1000, 1000, 1000, 2000, FALSE)>>)
(* mid-edit list whose virtual ranges leave 1000..1500 uncovered *)
TGap == Timeline(<<Seg("a", 0, 1000, 0, 1000, TRUE),
                   Seg("c", 1500, 2500, 2000, 3000, TRUE)>>)

Timelines == {TEmpty, TSkip, TShort, TGap}

(* the two-segment example of the tests, in ms *)
TTest == Timeline(<<Seg("clip1", 0, 5000, 0, 5000, TRUE),
                    Seg("clip2", 5000, 10000, 10000, 15000, TRUE)>>)
TTen == Timeline(<<Seg("clip1", 0, 10000, 0, 10000, TRUE)>>)

(* the two clips of TSkip after the user dragged the second in front *)
TSwap == Timeline(<<Seg("b", 0, 1000, 2000, 3000, TRUE),
                    Seg("a", 1000, 2000, 0, 1000, TRUE)>>)

MapperTimelines == Timelines \cup {TSingle, TTest, TTen}

----------------------------------------------------------------------------
(* ECGTimelineMapper: pure coordinate transforms (design section 4.1) *)

ContainsClosed(seg, virtualTime) ==
    /\ seg.isEnabled
    /\ virtualTime >= seg.virtualStartTime
    /\ virtualTime <= seg.virtualEndTime

ContainsNoLowerBound(seg, virtualTime) ==
    /\ seg.isEnabled
    /\ virtualTime < seg.virtualEndTime

Contains(seg, virtualTime) ==
    /\ seg.isEnabled
    /\ virtualTime >= seg.virtualStartTime
    /\ virtualTime < seg.virtualEndTime

(* first enabled segment whose [virtualStartTime, virtualEndTime) holds t *)
SegmentAt(tl, virtualTime) ==
    LET hits == {i \in 1..Len(tl.segments) : Contains(tl.segments[i], virtualTime)}
    IN IF hits = {} THEN NoSeg
       ELSE tl.segments[CHOOSE i \in hits : \A j \in hits : i <= j]

virtualToReal(tl, virtualTime) ==
    LET seg == SegmentAt(tl, virtualTime)
    IN IF virtualTime < 0 \/ virtualTime > tl.duration \/ seg = NoSeg
       THEN [realTime |-> 0, isValid |-> FALSE]
       ELSE [realTime |-> seg.realStartTime + (virtualTime - seg.virtualStartTime),
             isValid |-> TRUE]

toVirtual(tl, realTime) ==
    LET hits == {i \in 1..Len(tl.segments) :
                    /\ tl.segments[i].isEnabled
                    /\ realTime >= tl.segments[i].realStartTime
                    /\ realTime < tl.segments[i].realEndTime}
    IN IF hits = {} THEN [virtualTime |-> 0, isValid |-> FALSE]
       ELSE LET seg == tl.segments[CHOOSE i \in hits : \A j \in hits : i <= j]
            IN [virtualTime |-> seg.virtualStartTime + (realTime - seg.realStartTime),
                isValid |-> TRUE]

createVirtualFrameData(virtualTime, realTime) ==
    [virtualTime |-> virtualTime, mediaTime |-> realTime]

----------------------------------------------------------------------------
(* The controller and its element as one record, so that a method is a     *)
(* function from the state before the call to the state after it.          *)

Cur ==
    [now |-> now, timeline |-> timeline, video |-> video,
     currentVirtualTime |-> currentVirtualTime, isPlaying |-> isPlaying,
     playbackRate |-> playbackRate, lastFrameTime |-> lastFrameTime,
     isRVFCActive |-> isRVFCActive, rvfcHandle |-> rvfcHandle,
     virtualTimeStartTimestamp |-> virtualTimeStartTimestamp,
     virtualTimePausedAt |-> virtualTimePausedAt,
     isVirtualTimeRunning |-> isVirtualTimeRunning,
     currentActiveSegment |-> currentActiveSegment,
     completionArmed |-> completionArmed,
     elCurrentTime |-> elCurrentTime, elPaused |-> elPaused, elEvents |-> elEvents,
     elListeners |-> elListeners, elFrameCb |-> elFrameCb, rafPending |-> rafPending,
     hasRVFC |-> hasRVFC, bound |-> bound, other |-> other, notified |-> << >>,
     subscribers |-> subscribers, uncaught |-> FALSE]

Becomes(s) ==
    /\ now' = s.now
    /\ timeline' = s.timeline
    /\ video' = s.video
    /\ currentVirtualTime' = s.currentVirtualTime
    /\ isPlaying' = s.isPlaying
    /\ playbackRate' = s.playbackRate
    /\ lastFrameTime' = s.lastFrameTime
    /\ isRVFCActive' = s.isRVFCActive
    /\ rvfcHandle' = s.rvfcHandle
    /\ virtualTimeStartTimestamp' = s.virtualTimeStartTimestamp
    /\ virtualTimePausedAt' = s.virtualTimePausedAt
    /\ isVirtualTimeRunning' = s.isVirtualTimeRunning
    /\ currentActiveSegment' = s.currentActiveSegment
    /\ completionArmed' = s.completionArmed
    /\ elCurrentTime' = s.elCurrentTime
    /\ elPaused' = s.elPaused
    /\ elEvents' = s.elEvents
    /\ elListeners' = s.elListeners
    /\ elFrameCb' = s.elFrameCb
    /\ rafPending' = s.rafPending
    /\ hasRVFC' = s.hasRVFC
    /\ bound' = s.bound
    /\ other' = s.other
    /\ notified' = s.notified
    /\ subscribers' = s.subscribers
    /\ uncaught' = s.uncaught

(* the bounded queues have room for what the operation produced *)
Fits(s) == Len(s.elEvents) <= MaxEvents /\ s.rafPending <= MaxRaf

----------------------------------------------------------------------------
(* The media element (HTMLVideoElement), as far as the controller uses it *)

Elements == {1, 2}

(* an element nobody has touched *)
FreshElement ==
    [elCurrentTime |-> 0, elPaused |-> TRUE, elEvents |-> << >>,
     elListeners |-> FALSE, elFrameCb |-> FALSE, hasRVFC |-> TRUE]

(* this.video = video: from here on the controller talks to that element *)
Facing(s, element) ==
    IF element = s.bound THEN s
    ELSE [s EXCEPT !.bound = element,
                   !.elCurrentTime = s.other.elCurrentTime,
                   !.elPaused = s.other.elPaused,
                   !.elEvents = s.other.elEvents,
                   !.elListeners = s.other.elListeners,
                   !.elFrameCb = s.other.elFrameCb,
                   !.hasRVFC = s.other.hasRVFC,
                   !.other = [elCurrentTime |-> s.elCurrentTime,
                              elPaused |-> s.elPaused,
                              elEvents |-> s.elEvents,
                              elListeners |-> s.elListeners,
                              elFrameCb |-> s.elFrameCb,
                              hasRVFC |-> s.hasRVFC]]

elPause(s) ==
    IF s.elPaused THEN s
    ELSE [s EXCEPT !.elPaused = TRUE, !.elEvents = Append(@, "pause")]

elPlay(s) ==
    IF s.elPaused
    THEN [s EXCEPT !.elPaused = FALSE, !.elEvents = Append(@, "play")]
    ELSE s

elSetCurrentTime(s, realTime) ==
    [s EXCEPT !.elCurrentTime = Max(0, Min(realTime, MediaLen)),
              !.elEvents = Append(@, "seeked")]

----------------------------------------------------------------------------
(* Callback notification methods: every subscriber of the channel is called *)

(* the callback is called with no try around it *)
InvokeUnguarded(s, channel, value, behaviour) ==
    [s EXCEPT !.notified = Append(@, <<channel, value>>),
              !.uncaught = (behaviour = "throws")]

(* try { callback(value) } catch (error) { log(...) } *)
Invoke(s, channel, value, behaviour) ==
    [s EXCEPT !.notified = Append(@, <<channel, value>>)]

(* callbacks.forEach(callback => ...): an exception that leaves the loop   *)
(* body ends the loop                                                      *)
RECURSIVE ForEach(_, _, _, _)
ForEach(s, channel, value, i) ==
    IF i > Len(s.subscribers) \/ s.uncaught THEN s
    ELSE ForEach(Invoke(s, channel, value, s.subscribers[i]), channel, value, i + 1)

Notify(s, channel, value) == ForEach(s, channel, value, 1)

notifyPlayCallbacks(s) == Notify(s, "play", 0)
notifyPauseCallbacks(s) == Notify(s, "pause", 0)
notifyStopCallbacks(s) == Notify(s, "stop", 0)
notifySeekCallbacks(s, virtualTime) == Notify(s, "seek", virtualTime)
notifyTimeUpdateCallbacks(s, virtualTime) == Notify(s, "timeUpdate", virtualTime)
notifyMotionTextSeekCallbacks(s, virtualTime) == Notify(s, "motionTextSeek", virtualTime)
notifyFrameCallbacks(s, frameData) == Notify(s, "frame", frameData.virtualTime)

----------------------------------------------------------------------------
(* VirtualPlayerController: the virtual clock *)

getDuration(s) == s.timeline.duration

startVirtualTimeProgression(s) ==
    [s EXCEPT !.isVirtualTimeRunning = TRUE,
              !.virtualTimeStartTimestamp = s.now,
              !.virtualTimePausedAt = s.currentVirtualTime]

pauseVirtualTimeProgression(s) ==
    IF s.isVirtualTimeRunning
    THEN [s EXCEPT !.virtualTimePausedAt = s.currentVirtualTime,
                   !.isVirtualTimeRunning = FALSE]
    ELSE s

stopVirtualTimeProgression(s) ==
    [s EXCEPT !.isVirtualTimeRunning = FALSE,
              !.virtualTimeStartTimestamp = 0,
              !.virtualTimePausedAt = 0]

(* the virtual time is read back from the element's position *)
ElapsedVirtualTimeFromElement(s, frameNow) ==
    toVirtual(s.timeline, s.elCurrentTime).virtualTime

(* pausedAt + elapsedSeconds * playbackRate, in ms *)
ElapsedVirtualTime(s, frameNow) ==
    s.virtualTimePausedAt + (frameNow - s.virtualTimeStartTimestamp) * s.playbackRate

updateContinuousVirtualTimeUnguarded(s, frameNow) ==
    [s EXCEPT !.currentVirtualTime =
                  Min(ElapsedVirtualTime(s, frameNow), s.timeline.duration)]

updateContinuousVirtualTime(s, frameNow) ==
    IF ~s.isVirtualTimeRunning \/ ~s.isPlaying THEN s
    ELSE [s EXCEPT !.currentVirtualTime =
                        Min(ElapsedVirtualTime(s, frameNow), getDuration(s))]

findActiveSegmentAtVirtualTime(s, virtualTime) == SegmentAt(s.timeline, virtualTime)

handleSegmentChange(s, newSegment) == [s EXCEPT !.currentActiveSegment = newSegment]

TargetRealTimeFromVirtualStart(seg, virtualTime) ==
    seg.virtualStartTime +
        ((seg.realEndTime - seg.realStartTime) * (virtualTime - seg.virtualStartTime))
            \div (seg.virtualEndTime - seg.virtualStartTime)

(* realStartTime + (realEndTime - realStartTime) * segmentProgress *)
TargetRealTime(seg, virtualTime) ==
    seg.realStartTime +
        ((seg.realEndTime - seg.realStartTime) * (virtualTime - seg.virtualStartTime))
            \div (seg.virtualEndTime - seg.virtualStartTime)

updateVideoPositionFromVirtualTime(s) ==
    IF ~s.video THEN s
    ELSE IF s.currentActiveSegment # NoSeg
    THEN LET target == TargetRealTime(s.currentActiveSegment, s.currentVirtualTime)
             s1 == IF Abs(s.elCurrentTime - target) > DriftThresholdMs
                   THEN elSetCurrentTime(s, target) ELSE s
         IN IF s1.elPaused /\ s1.isPlaying THEN elPlay(s1) ELSE s1
    ELSE elPause(s)

----------------------------------------------------------------------------
(* VirtualSegmentController (design section 4.2)                           *)

segmentControllerSetTimeline(s) == [s EXCEPT !.completionArmed = FALSE]

(* a transition target is the start of the next enabled real range; past   *)
(* the last one the debounced completion signal is armed                   *)
processCurrentTime(s, realTime) ==
    LET later == {i \in EnabledIdx(s.timeline) :
                     s.timeline.segments[i].realStartTime > realTime}
    IN IF later = {}
       THEN [needsTransition |-> FALSE, targetTime |-> 0, armed |-> TRUE]
       ELSE LET n == CHOOSE i \in later : \A j \in later :
                        s.timeline.segments[i].realStartTime
                            <= s.timeline.segments[j].realStartTime
            IN [needsTransition |-> TRUE,
                targetTime |-> s.timeline.segments[n].realStartTime,
                armed |-> FALSE]

----------------------------------------------------------------------------
(* VirtualPlayerController: playback control *)

(* what the caller of play() gets back: the async method rejects with      *)
(* Error('Video not attached') when no element is attached                 *)
playReturn(s) == IF ~s.video THEN "throws" ELSE "resolved"

play(s) ==
    IF ~s.video THEN s
    ELSE notifyPlayCallbacks([startVirtualTimeProgression(s) EXCEPT !.isPlaying = TRUE])

pause(s) ==
    IF ~s.video THEN s
    ELSE notifyPauseCallbacks(
            [elPause(pauseVirtualTimeProgression(s)) EXCEPT !.isPlaying = FALSE])

stopKeepsTime(s) ==
    IF ~s.video THEN s
    ELSE notifyStopCallbacks(
            [elPause(stopVirtualTimeProgression(s)) EXCEPT
                !.isPlaying = FALSE,
                !.currentActiveSegment = NoSeg])

stop(s) ==
    IF ~s.video THEN s
    ELSE notifyStopCallbacks(
            [elPause(stopVirtualTimeProgression(s)) EXCEPT
                !.isPlaying = FALSE,
                !.currentVirtualTime = 0,
                !.currentActiveSegment = NoSeg])

ClampToDurationNoCeiling(s, virtualTime) == Max(0, virtualTime)

ClampToDurationNoFloor(s, virtualTime) == Min(virtualTime, s.timeline.duration)

ClampToDuration(s, virtualTime) == Max(0, Min(virtualTime, getDuration(s)))

seek(s, virtualTime) ==
    IF ~s.video THEN s
    ELSE LET s1 == [s EXCEPT !.currentVirtualTime = ClampToDuration(s, virtualTime)]
             s2 == IF s1.isVirtualTimeRunning
                   THEN [s1 EXCEPT !.virtualTimePausedAt = s1.currentVirtualTime,
                                   !.virtualTimeStartTimestamp = s1.now]
                   ELSE s1
             s3 == updateVideoPositionFromVirtualTime(s2)
         IN notifyMotionTextSeekCallbacks(
                notifyTimeUpdateCallbacks(
                    notifySeekCallbacks(s3, s3.currentVirtualTime),
                    s3.currentVirtualTime),
                s3.currentVirtualTime)

(* what the caller of seek() gets back: the method is declared void, and   *)
(* without an element it returns at once                                   *)
seekReturn(s, virtualTime) == "void"

setPlaybackRate(s, rate) ==
    IF ~s.video THEN s ELSE [s EXCEPT !.playbackRate = rate]

isWithinValidSegment(s, realTime) ==
    \E i \in EnabledIdx(s.timeline) :
        /\ realTime >= s.timeline.segments[i].realStartTime
        /\ realTime <= s.timeline.segments[i].realEndTime

(* timeline.segments.filter(isEnabled).sort(by realStartTime)[0]; the sort *)
(* is stable, so among equal starts the first of the list wins             *)
FirstValidSegment(tl) ==
    IF EnabledIdx(tl) = {} THEN NoSeg
    ELSE tl.segments[CHOOSE i \in EnabledIdx(tl) : \A j \in EnabledIdx(tl) :
            \/ tl.segments[i].realStartTime < tl.segments[j].realStartTime
            \/ (tl.segments[i].realStartTime = tl.segments[j].realStartTime /\ i <= j)]

moveToFirstValidSegment(s) ==
    IF ~s.video THEN s
    ELSE LET firstSegment == FirstValidSegment(s.timeline)
         IN IF firstSegment = NoSeg THEN s
            ELSE LET s1 == elSetCurrentTime(s, firstSegment.realStartTime)
                     mapping == toVirtual(s.timeline, firstSegment.realStartTime)
                 IN IF mapping.isValid
                    THEN notifyMotionTextSeekCallbacks(
                            notifyTimeUpdateCallbacks(
                                [s1 EXCEPT !.currentVirtualTime = mapping.virtualTime],
                                mapping.virtualTime),
                            mapping.virtualTime)
                    ELSE s1

ClampToTimelineSkipped(s, tl) == s

ClampToTimeline(s, tl) ==
    IF s.currentVirtualTime > tl.duration
    THEN [s EXCEPT !.currentVirtualTime = Min(s.currentVirtualTime, tl.duration)]
    ELSE s

(* called with the timeline the mapper has just rebuilt *)
handleTimelineUpdate(s, tl) ==
    LET s1 == ClampToTimeline(segmentControllerSetTimeline(s), tl)
        s2 == IF s1.video /\ ~isWithinValidSegment(s1, s1.elCurrentTime)
              THEN IF s1.isPlaying
                   THEN LET result == processCurrentTime(s1, s1.elCurrentTime)
                            s1a == [s1 EXCEPT !.completionArmed = result.armed]
                        IN IF result.needsTransition
                           THEN elSetCurrentTime(s1a, result.targetTime)
                           ELSE s1a
                   ELSE moveToFirstValidSegment(s1)
              ELSE s1
    IN Notify(s2, "timelineChange", tl.duration)

(* the element is left running at the end *)
pauseAtEndElementRuns(s) ==
    IF ~s.video THEN s
    ELSE LET s1 == [pauseVirtualTimeProgression(s) EXCEPT !.isPlaying = FALSE]
             s2 == [s1 EXCEPT !.currentVirtualTime = getDuration(s1),
                              !.currentActiveSegment = NoSeg]
         IN notifyPauseCallbacks(
                notifyMotionTextSeekCallbacks(
                    notifyTimeUpdateCallbacks(s2, s2.currentVirtualTime),
                    s2.currentVirtualTime))

pauseAtEnd(s) ==
    IF ~s.video THEN s
    ELSE LET s1 == elPause([pauseVirtualTimeProgression(s) EXCEPT !.isPlaying = FALSE])
             s2 == [s1 EXCEPT !.currentVirtualTime = getDuration(s1),
                              !.currentActiveSegment = NoSeg]
         IN notifyPauseCallbacks(
                notifyMotionTextSeekCallbacks(
                    notifyTimeUpdateCallbacks(s2, s2.currentVirtualTime),
                    s2.currentVirtualTime))

----------------------------------------------------------------------------
(* VirtualPlayerController: attachment and the frame loop *)

setupVideoEventListeners(s) == IF ~s.video THEN s ELSE [s EXCEPT !.elListeners = TRUE]

(* the listeners are removed after this.video has been cleared *)
removeVideoEventListenersTooLate(s) == s

removeVideoEventListeners(s) == IF ~s.video THEN s ELSE [s EXCEPT !.elListeners = FALSE]

(* requestAnimationFrame(rafCallback): one more closure waits for a frame *)
fallbackToRAF(s) == [s EXCEPT !.rafPending = @ + 1]

scheduleNextFrame(s) ==
    IF ~s.video \/ ~s.isRVFCActive THEN s
    ELSE IF ~s.hasRVFC THEN fallbackToRAF(s)
    ELSE [s EXCEPT !.rvfcHandle = TRUE, !.elFrameCb = TRUE]

startRVFC(s) ==
    IF ~s.video \/ s.isRVFCActive THEN s
    ELSE scheduleNextFrame([s EXCEPT !.isRVFCActive = TRUE])

stopRVFC(s) ==
    LET s1 == IF s.rvfcHandle
              THEN [s EXCEPT !.elFrameCb = FALSE, !.rvfcHandle = FALSE]
              ELSE s
    IN [s1 EXCEPT !.isRVFCActive = FALSE]

detachVideo(s) ==
    IF s.video
    THEN [removeVideoEventListeners(stopRVFC(s)) EXCEPT !.video = FALSE]
    ELSE s

attachVideo(s, element) ==
    LET s1 == IF s.video THEN detachVideo(s) ELSE s
    IN startRVFC(setupVideoEventListeners([Facing(s1, element) EXCEPT !.video = TRUE]))

(* what a frame subscriber does while it is being notified *)
SubscriberActs == {"nothing", "detach"}

SubscriberRuns(s, act) == IF act = "detach" THEN detachVideo(s) ELSE s

FrameDebounced(s, frameNow) == frameNow - s.lastFrameTime < FrameProcessingDebounceMs

handleVideoFrame(s, frameNow, act) ==
    IF ~s.video THEN s
    ELSE IF FrameDebounced(s, frameNow) THEN s
    ELSE LET s1 == updateContinuousVirtualTime(s, frameNow)
         IN IF s1.currentVirtualTime >= getDuration(s1) THEN pauseAtEnd(s1)
            ELSE LET activeSegment ==
                         findActiveSegmentAtVirtualTime(s1, s1.currentVirtualTime)
                     s2 == IF activeSegment # s1.currentActiveSegment
                           THEN handleSegmentChange(s1, activeSegment) ELSE s1
                     s3 == updateVideoPositionFromVirtualTime(s2)
                     frameData == createVirtualFrameData(s3.currentVirtualTime,
                                                         s3.elCurrentTime)
                     s4 == SubscriberRuns(notifyFrameCallbacks(s3, frameData), act)
                     s5 == notifyMotionTextSeekCallbacks(
                              notifyTimeUpdateCallbacks(s4, s4.currentVirtualTime),
                              s4.currentVirtualTime)
                 IN [s5 EXCEPT !.lastFrameTime = frameNow]

(* the callback registered with requestVideoFrameCallback *)
rvfcCallback(s, act) ==
    scheduleNextFrame(handleVideoFrame([s EXCEPT !.elFrameCb = FALSE], s.now, act))

(* the closure registered with requestAnimationFrame *)
rafCallback(s, act) ==
    LET s0 == [s EXCEPT !.rafPending = @ - 1]
    IN IF s0.video /\ s0.isRVFCActive
       THEN fallbackToRAF(handleVideoFrame(s0, s0.now, act))
       ELSE s0

----------------------------------------------------------------------------
(* VirtualPlayerController: native events of the element *)

handleVideoPlay(s) == notifyPlayCallbacks([s EXCEPT !.isPlaying = TRUE])

handleVideoPause(s) == notifyPauseCallbacks([s EXCEPT !.isPlaying = FALSE])

handleVideoSeeked(s) ==
    IF ~s.video THEN s
    ELSE LET mapping == toVirtual(s.timeline, s.elCurrentTime)
         IN IF mapping.isValid
            THEN notifySeekCallbacks(
                    [s EXCEPT !.currentVirtualTime = mapping.virtualTime],
                    mapping.virtualTime)
            ELSE s

handleVideoEnded(s) == notifyStopCallbacks([s EXCEPT !.isPlaying = FALSE])

HandlerOf(event) ==
    IF event = "play" THEN "handleVideoPlay"
    ELSE IF event = "pause" THEN "handleVideoPause"
    ELSE IF event = "seeked" THEN "handleVideoSeeked"
    ELSE "handleVideoEnded"

NativeEvents == {"play", "pause", "seeked", "ended"}

Handle(s, event) ==
    IF event = "play" THEN handleVideoPlay(s)
    ELSE IF event = "pause" THEN handleVideoPause(s)
    ELSE IF event = "seeked" THEN handleVideoSeeked(s)
    ELSE handleVideoEnded(s)

(* an event of the element the controller is facing *)
Dispatch(s, event) == IF ~s.elListeners THEN s ELSE Handle(s, event)

(* an event of the other element: its listeners run if it still has them *)
DispatchFromOther(s, event) == IF ~s.other.elListeners THEN s ELSE Handle(s, event)

----------------------------------------------------------------------------
(* Operations *)

Op(op, arg, ran) ==
    [op |-> op, arg |-> arg, ran |-> ran, overtaken |-> "none", ret |-> "none"]

NoQuery == [op |-> "none", arg |-> 0, res |-> 0, isValid |-> FALSE, seg |-> "none"]

NoSeek == [left |-> 0, ret |-> "none"]

(* the element seek of the request in flight settles when its seeked event *)
(* is dispatched: left counts the events queued up to and including it     *)
Repositioned(s) == Len(s.elEvents) > Len(elEvents)

Call == calls < MaxCalls /\ calls' = calls + 1

(* the frame that left state s ran pauseAtEnd() *)
ReachedEnd(s, processed) == processed /\ s.currentVirtualTime >= getDuration(s)

(* one well-behaved subscriber on every channel *)
OneSubscriber == <<"ok">>

InitWith(timelines, registries) ==
    /\ now = StartNow
    /\ timeline \in timelines
    /\ subscribers \in registries
    /\ uncaught = FALSE
    /\ video = FALSE
    /\ currentVirtualTime = 0
    /\ isPlaying = FALSE
    /\ playbackRate = 1
    /\ lastFrameTime = 0
    /\ isRVFCActive = FALSE
    /\ rvfcHandle = FALSE
    /\ virtualTimeStartTimestamp = 0
    /\ virtualTimePausedAt = 0
    /\ isVirtualTimeRunning = FALSE
    /\ currentActiveSegment = NoSeg
    /\ completionArmed = FALSE
    /\ elCurrentTime = 0
    /\ elPaused = TRUE
    /\ elEvents = << >>
    /\ elListeners = FALSE
    /\ elFrameCb = FALSE
    /\ rafPending = 0
    /\ hasRVFC \in BOOLEAN
    /\ bound = 1
    /\ other = FreshElement
    /\ notified = << >>
    /\ lastOp = Op("new", 0, TRUE)
    /\ held = "none"
    /\ seekInFlight = NoSeek
    /\ completed = FALSE
    /\ calls = 0
    /\ query = NoQuery

(* the controller is constructed over a mapper that may hold any timeline *)
Init == InitWith(Timelines, {OneSubscriber})

AttachVideo(element) ==
    /\ Call
    /\ LET s == attachVideo(Cur, element)
       IN /\ Fits(s)
          /\ Becomes(s)
          /\ lastOp' = Op("attachVideo", 0, TRUE)
          /\ UNCHANGED <<held, seekInFlight, completed, query>>

DetachVideo ==
    /\ Call
    /\ Becomes(detachVideo(Cur))
    /\ lastOp' = Op("detachVideo", 0, video)
    /\ UNCHANGED <<held, seekInFlight, completed, query>>

Play ==
    /\ Call
    /\ Becomes(play(Cur))
    /\ lastOp' = [Op("play", 0, video) EXCEPT !.ret = playReturn(Cur)]
    /\ held' = IF video THEN "none" ELSE held
    /\ completed' = (completed /\ ~video)
    /\ UNCHANGED <<seekInFlight, query>>

Pause ==
    /\ Call
    /\ LET s == pause(Cur)
       IN /\ Fits(s)
          /\ Becomes(s)
          /\ lastOp' = Op("pause", currentVirtualTime, video)
          /\ held' = IF video THEN "paused" ELSE held
          /\ UNCHANGED <<seekInFlight, completed, query>>

Stop ==
    /\ Call
    /\ LET s == stop(Cur)
       IN /\ Fits(s)
          /\ Becomes(s)
          /\ lastOp' = Op("stop", currentVirtualTime, video)
          /\ held' = IF video THEN "stopped" ELSE held
          /\ completed' = (completed /\ ~video)
          /\ UNCHANGED <<seekInFlight, query>>

Seek(virtualTime) ==
    /\ Call
    /\ LET s == seek(Cur, virtualTime)
           ret == seekReturn(Cur, virtualTime)
       IN /\ Fits(s)
          /\ Becomes(s)
          /\ lastOp' = [Op("seek", virtualTime, video) EXCEPT
                           !.overtaken = IF video /\ seekInFlight.left > 0
                                         THEN seekInFlight.ret ELSE "none",
                           !.ret = ret]
          /\ held' = IF video THEN "none" ELSE held
          /\ seekInFlight' = IF ~video THEN seekInFlight
                             ELSE IF Repositioned(s)
                             THEN [left |-> Len(s.elEvents), ret |-> ret]
                             ELSE NoSeek
          /\ completed' = (completed /\ ~video)
          /\ UNCHANGED query

SetPlaybackRate(rate) ==
    /\ Call
    /\ Becomes(setPlaybackRate(Cur, rate))
    /\ lastOp' = Op("setPlaybackRate", 0, video)
    /\ UNCHANGED <<held, seekInFlight, completed, query>>

(* the editor's clips changed: mapper.initialize(clips), then              *)
(* handleTimelineUpdate(getTimeline())                                     *)
TimelineChanged(tl) ==
    /\ Call
    /\ LET s == handleTimelineUpdate([Cur EXCEPT !.timeline = tl], tl)
       IN /\ Fits(s)
          /\ Becomes(s)
          /\ lastOp' = Op("handleTimelineUpdate", currentVirtualTime, TRUE)
          /\ held' = IF held = "paused" THEN "none" ELSE held
          /\ completed' = FALSE
          /\ UNCHANGED <<seekInFlight, query>>

VideoFrameCallback(act) ==
    /\ IF act = "nothing" THEN UNCHANGED calls ELSE Call
    /\ elFrameCb
    /\ LET s == rvfcCallback(Cur, act)
       IN /\ Fits(s)
          /\ Becomes(s)
          /\ lastOp' = Op("frame", 0, video /\ ~FrameDebounced(Cur, now))
          /\ completed' = (completed \/ ReachedEnd(s, video /\ ~FrameDebounced(Cur, now)))
    /\ UNCHANGED <<held, seekInFlight, query>>

AnimationFrame(act) ==
    /\ IF act = "nothing" THEN UNCHANGED calls ELSE Call
    /\ rafPending > 0
    /\ LET s == rafCallback(Cur, act)
       IN /\ Fits(s)
          /\ Becomes(s)
          /\ lastOp' = Op("frame", 0,
                          video /\ isRVFCActive /\ ~FrameDebounced(Cur, now))
          /\ completed' = (completed \/
                ReachedEnd(s, video /\ isRVFCActive /\ ~FrameDebounced(Cur, now)))
    /\ UNCHANGED <<held, seekInFlight, query>>

NativeEvent ==
    /\ elEvents # << >>
    /\ LET event == Head(elEvents)
           s == Dispatch([Cur EXCEPT !.elEvents = Tail(@)], event)
       IN /\ Becomes(s)
          /\ lastOp' = Op(HandlerOf(event), 0, elListeners)
          /\ held' = IF event = "seeked" /\ elListeners /\ held = "paused"
                     THEN "none" ELSE held
    /\ seekInFlight' = IF seekInFlight.left > 1
                       THEN [seekInFlight EXCEPT !.left = @ - 1]
                       ELSE NoSeek
    /\ UNCHANGED <<completed, calls, query>>

(* the segment controller's debounce timer runs out: onPlaybackComplete *)
PlaybackCompleteTimer ==
    /\ completionArmed
    /\ LET s == pauseAtEnd([Cur EXCEPT !.completionArmed = FALSE])
       IN /\ Fits(s)
          /\ Becomes(s)
          /\ lastOp' = Op("playbackComplete", 0, video)
    /\ completed' = (completed \/ video)
    /\ UNCHANGED <<held, seekInFlight, calls, query>>

(* wall-clock time passes; a playing element advances at its playback rate *)
(* and pauses itself with an ended event at the end of the media           *)
ElementPlays(s, dt) ==
    IF s.elPaused THEN s
    ELSE LET t == s.elCurrentTime + dt * s.playbackRate
         IN IF t >= MediaLen
            THEN [s EXCEPT !.elCurrentTime = MediaLen, !.elPaused = TRUE,
                           !.elEvents = @ \o <<"pause", "ended">>]
            ELSE [s EXCEPT !.elCurrentTime = t]

Tick ==
    /\ now + Dt <= MaxNow
    /\ LET s == ElementPlays([Cur EXCEPT !.now = now + Dt], Dt)
       IN /\ Fits(s)
          /\ Becomes(s)
    /\ lastOp' = Op("tick", 0, TRUE)
    /\ UNCHANGED <<held, seekInFlight, completed, calls, query>>

(* the editor page mounts one video element *)
Next ==
    \/ AttachVideo(1)
    \/ DetachVideo
    \/ Play
    \/ Pause
    \/ Stop
    \/ \E x \in SeekTargets : Seek(x)
    \/ \E r \in PlaybackRates : SetPlaybackRate(r)
    \/ \E tl \in Timelines : TimelineChanged(tl)
    \/ \E act \in SubscriberActs : VideoFrameCallback(act)
    \/ \E act \in SubscriberActs : AnimationFrame(act)
    \/ NativeEvent
    \/ PlaybackCompleteTimer
    \/ Tick

Spec == Init /\ [][Next]_vars

----------------------------------------------------------------------------
(* The lookups on their own: a timeline is built, then times are looked up *)

QueryTimes == {0 - 1000, 0, 500, 999, 1000, 1250, 1500, 2000, 2500, 4999, 5000,
               7500, 10000, 15000, 100000}

MapperInit == InitWith(MapperTimelines, {OneSubscriber})

MapperInitialize(tl) ==
    /\ timeline' = tl
    /\ query' = NoQuery
    /\ UNCHANGED <<now, video, ctl, elem, notified, reg, hist>>

QueryVirtualToReal(t) ==
    /\ LET r == virtualToReal(timeline, t)
       IN query' = [op |-> "virtualToReal", arg |-> t, res |-> r.realTime,
                    isValid |-> r.isValid, seg |-> SegmentAt(timeline, t).id]
    /\ UNCHANGED <<now, timeline, video, ctl, elem, notified, reg, hist>>

QueryToVirtual(t) ==
    /\ LET r == toVirtual(timeline, t)
       IN query' = [op |-> "toVirtual", arg |-> t, res |-> r.virtualTime,
                    isValid |-> r.isValid, seg |-> "none"]
    /\ UNCHANGED <<now, timeline, video, ctl, elem, notified, reg, hist>>

(* the controller's own lookup and the real position it steers the element to *)
QueryActiveSegment(t) ==
    /\ LET seg == findActiveSegmentAtVirtualTime(Cur, t)
       IN query' = [op |-> "activeSegment", arg |-> t,
                    res |-> IF seg = NoSeg THEN 0 ELSE TargetRealTime(seg, t),
                    isValid |-> seg # NoSeg, seg |-> seg.id]
    /\ UNCHANGED <<now, timeline, video, ctl, elem, notified, reg, hist>>

MapperNext ==
    \/ \E tl \in MapperTimelines : MapperInitialize(tl)
    \/ \E t \in QueryTimes : QueryVirtualToReal(t)
    \/ \E t \in QueryTimes : QueryToVirtual(t)
    \/ \E t \in QueryTimes : QueryActiveSegment(t)

MapperSpec == MapperInit /\ [][MapperNext]_vars

----------------------------------------------------------------------------
(* The notification rounds with subscribers that throw *)

Registries == {<<"throws", "ok">>, <<"ok", "throws", "ok">>}

NotifyInit == InitWith({TSkip}, Registries)

NotifyNext ==
    \/ AttachVideo(1)
    \/ Play
    \/ Pause
    \/ Stop
    \/ \E x \in SeekTargets : Seek(x)
    \/ TimelineChanged(TEmpty)
    \/ \E act \in SubscriberActs : VideoFrameCallback(act)
    \/ \E act \in SubscriberActs : AnimationFrame(act)
    \/ NativeEvent
    \/ Tick

NotifySpec == NotifyInit /\ [][NotifyNext]_vars

----------------------------------------------------------------------------
(* Attaching and detaching with two elements on the page *)

(* the element the controller is not facing raises an event *)
OtherNativeEvent(event) ==
    /\ Call
    /\ LET s == DispatchFromOther(Cur, event)
       IN /\ Fits(s)
          /\ Becomes(s)
          /\ lastOp' = Op("otherElementEvent", 0, other.elListeners)
    /\ UNCHANGED <<held, seekInFlight, completed, query>>

AttachInit == InitWith({TSkip}, {OneSubscriber})

AttachNext ==
    \/ \E element \in Elements : AttachVideo(element)
    \/ DetachVideo
    \/ Play
    \/ Seek(1000)
    \/ VideoFrameCallback("nothing")
    \/ AnimationFrame("nothing")
    \/ NativeEvent
    \/ \E event \in NativeEvents : OtherNativeEvent(event)
    \/ Tick

AttachSpec == AttachInit /\ [][AttachNext]_vars

----------------------------------------------------------------------------
(* Editing while a video is attached: clips are removed and reordered *)

EditTimelines == {TSkip, TSwap, TShort}

EditInit == InitWith(EditTimelines, {OneSubscriber})

EditNext ==
    \/ AttachVideo(1)
    \/ Play
    \/ Pause
    \/ \E x \in SeekTargets : Seek(x)
    \/ \E tl \in EditTimelines : TimelineChanged(tl)
    \/ VideoFrameCallback("nothing")
    \/ AnimationFrame("nothing")
    \/ NativeEvent
    \/ Tick

EditSpec == EditInit /\ [][EditNext]_vars

----------------------------------------------------------------------------
(* Uninterrupted playback: the element is attached, play() is pressed and  *)
(* nothing but frames, native events and time follows                      *)

FirstAttach == ~video /\ AttachVideo(1)

Start == ~isVirtualTimeRunning /\ Play

(* the browser renders a frame in every step of the clock: time moves on   *)
(* when the frame of this instant has been processed                       *)
LongTick ==
    /\ ~video \/ completed \/ lastFrameTime = now
    /\ now + Dt <= PlayMaxNow
    /\ LET s == ElementPlays([Cur EXCEPT !.now = now + Dt], Dt)
       IN /\ Fits(s)
          /\ Becomes(s)
    /\ lastOp' = Op("tick", 0, TRUE)
    /\ UNCHANGED <<held, seekInFlight, completed, calls, query>>

PlayTimelines == {TSkip, TGap, TSingle}

PlayInit == InitWith(PlayTimelines, {OneSubscriber})

PlayNext ==
    \/ FirstAttach
    \/ Start
    \/ VideoFrameCallback("nothing")
    \/ AnimationFrame("nothing")
    \/ NativeEvent
    \/ LongTick

(* a frame callback that is pending can run: the last step was not a frame *)
(* and the event queue has room for what a frame may raise                 *)
FrameDue == lastOp.op # "frame" /\ Len(elEvents) + 2 <= MaxEvents

(* the browser keeps rendering frames, dispatching queued events and       *)
(* advancing time: weak fairness of the four steps, written out for the    *)
(* frame callbacks with FrameDue, which implies that the step is enabled   *)
PlaySpec ==
    /\ PlayInit
    /\ [][PlayNext]_vars
    /\ ([]<>~(elFrameCb /\ FrameDue) \/ []<><<VideoFrameCallback("nothing")>>_vars)
    /\ ([]<>~(rafPending > 0 /\ FrameDue) \/ []<><<AnimationFrame("nothing")>>_vars)
    /\ WF_vars(NativeEvent)
    /\ WF_vars(LongTick)

----------------------------------------------------------------------------
(* Properties *)

Channels(seq) == {seq[i][1] : i \in 1..Len(seq)}

FrameProcessed(op) == op.op = "frame" /\ op.ran

(* the first enabled segment of the edited sequence *)
FirstOfSequence(tl) ==
    tl.segments[CHOOSE i \in EnabledIdx(tl) : \A j \in EnabledIdx(tl) : i <= j]

InGap(tl, virtualTime) ==
    /\ virtualTime >= 0
    /\ virtualTime < tl.duration
    /\ SegmentAt(tl, virtualTime) = NoSeg

(* C1: after seek(x) on an attached controller the virtual time is         *)
(* max(0, min(x, duration)) and the seek, time-update and overlay          *)
(* subscribers have been called, in that order, with that value.           *)
C1_SeekClampsAndNotifies ==
    (lastOp.op = "seek" /\ lastOp.ran) =>
        LET clamped == IF lastOp.arg < 0 THEN 0
                       ELSE IF lastOp.arg > timeline.duration THEN timeline.duration
                       ELSE lastOp.arg
        IN /\ currentVirtualTime = clamped
           /\ notified = << <<"seek", clamped>>, <<"timeUpdate", clamped>>,
                            <<"motionTextSeek", clamped>> >>

C1_Witness ==
    /\ lastOp.op = "seek" /\ lastOp.ran
    /\ lastOp.arg > timeline.duration
    /\ timeline.duration > 0
    /\ currentVirtualTime = timeline.duration

(* C2: a seek() overtaken by a newer one before its element seek settled   *)
(* fails for its caller with 'Seek cancelled', and the newest is fulfilled *)
(* with its own virtual time.                                              *)
C2_OvertakenSeekIsCancelled ==
    (lastOp.op = "seek" /\ lastOp.ran /\ lastOp.overtaken # "none") =>
        /\ lastOp.overtaken = "cancelled"
        /\ lastOp.ret = "pending"

(* C3: while playback is active and the virtual time lies in a gap, the    *)
(* element is paused but every processed frame still sets the virtual time *)
(* from the elapsed-time clock.                                            *)
C3_GapKeepsClockAdvancing ==
    [][(/\ FrameProcessed(lastOp')
        /\ isVirtualTimeRunning
        /\ InGap(timeline, currentVirtualTime)
        /\ currentActiveSegment = NoSeg
        /\ elPaused)
       => currentVirtualTime' = Min(ElapsedVirtualTime(Cur, now), timeline.duration)]_vars

(* C4: once detachVideo() has returned, no frame, time-update or overlay   *)
(* subscriber is called by a frame callback, also when the detach is made  *)
(* by a subscriber in the middle of a frame's notification round.          *)
C4_NoFrameNotificationAfterDetach ==
    (lastOp.op = "frame" /\ ~video) =>
        Channels(notified) \cap {"timeUpdate", "motionTextSeek"} = {}

(* C11: play() and seek(t) issued while no video is attached fail with an  *)
(* error for the caller, change no controller state and notify nobody.     *)
C11_CommandWithoutVideoFails ==
    [][(lastOp'.op \in {"play", "seek"} /\ ~lastOp'.ran) =>
          /\ lastOp'.ret = "throws"
          /\ notified' = << >>
          /\ UNCHANGED <<currentVirtualTime, isPlaying, virtualTimeStartTimestamp,
                         virtualTimePausedAt, isVirtualTimeRunning>>]_vars

(* C12: in every notification round an exception thrown by a subscriber is *)
(* caught: it does not leave the round, and every subscriber registered    *)
(* for the round is called.                                                *)
C12_SubscriberFaultsAreIsolated ==
    /\ ~uncaught
    /\ \A c \in Channels(notified) :
          Cardinality({i \in 1..Len(notified) : notified[i][1] = c}) = Len(subscribers)

C12_Witness ==
    /\ subscribers = <<"throws", "ok">>
    /\ FrameProcessed(lastOp)
    /\ Channels(notified) = {"frame", "timeUpdate", "motionTextSeek"}
    /\ Len(notified) = 6
    /\ lastFrameTime = now

(* C13: the controller keeps listeners and a frame callback on at most the *)
(* element it is bound to: attaching another element first strips the      *)
(* previous one, whose later events change nothing in the controller, and  *)
(* after detachVideo() no element carries a listener or a frame callback.  *)
C13_BoundToAtMostOneElement ==
    /\ [](/\ ~other.elListeners
          /\ ~other.elFrameCb
          /\ ~video => (~elListeners /\ ~elFrameCb))
    /\ [][lastOp'.op = "otherElementEvent" =>
            (UNCHANGED <<ctl, video>> /\ notified' = << >>)]_vars

C13_Witness ==
    /\ lastOp.op = "otherElementEvent"
    /\ video
    /\ bound = 2
    /\ elListeners
    /\ isPlaying
    /\ other.elCurrentTime > 0

(* C15: while the controller is playing with its clock running, every      *)
(* processed frame sets the virtual time to                                *)
(* min(V0 + (now - T0) * playbackRate, duration); V0 and T0 are written by *)
(* play() and by a seek() made while the clock runs (the clamped target    *)
(* and the instant of the call) and by nothing else while the clock runs;  *)
(* the element's position does not enter.                                  *)
C15_ClockFollowsWallTime ==
    /\ [][(FrameProcessed(lastOp') /\ isPlaying /\ isVirtualTimeRunning) =>
            currentVirtualTime' =
                Min(virtualTimePausedAt
                        + (now - virtualTimeStartTimestamp) * playbackRate,
                    timeline.duration)]_vars
    /\ [][(lastOp'.op = "play" /\ lastOp'.ran) =>
            /\ isVirtualTimeRunning'
            /\ virtualTimePausedAt' = currentVirtualTime
            /\ virtualTimeStartTimestamp' = now]_vars
    /\ [][(lastOp'.op = "seek" /\ lastOp'.ran /\ isVirtualTimeRunning) =>
            /\ isVirtualTimeRunning'
            /\ virtualTimePausedAt' = Max(0, Min(lastOp'.arg, timeline.duration))
            /\ virtualTimeStartTimestamp' = now]_vars
    /\ [][(isVirtualTimeRunning /\ isVirtualTimeRunning'
                /\ ~(lastOp'.op \in {"play", "seek"} /\ lastOp'.ran)) =>
            UNCHANGED <<virtualTimePausedAt, virtualTimeStartTimestamp>>]_vars

C15_Witness ==
    /\ FrameProcessed(lastOp)
    /\ isPlaying /\ isVirtualTimeRunning
    /\ playbackRate = 2
    /\ virtualTimePausedAt = 1000
    /\ currentVirtualTime = 1000 + (now - virtualTimeStartTimestamp) * 2
    /\ now > virtualTimeStartTimestamp
    /\ currentVirtualTime < timeline.duration

(* C16: whenever a frame, time-update or overlay subscriber is notified     *)
(* with virtual time v, the tracked active segment is the enabled segment  *)
(* containing v (or none), and the element has been repositioned for v:    *)
(* within the drift threshold of v's real time, or paused when v lies in   *)
(* no segment.                                                             *)
C16_SubscribersSeeConsistentState ==
    \A i \in 1..Len(notified) :
        notified[i][1] \in {"frame", "timeUpdate", "motionTextSeek"} =>
            LET v == notified[i][2]
                seg == SegmentAt(timeline, v)
            IN video =>
                /\ currentActiveSegment = seg
                /\ seg # NoSeg =>
                      Abs(elCurrentTime - TargetRealTime(seg, v)) <= DriftThresholdMs
                /\ seg = NoSeg => elPaused

(* C17: a processed frame that finds the virtual time at the duration      *)
(* ends playback in that frame: not playing, clock stopped, element        *)
(* paused, virtual time equal to the duration, no active segment, the      *)
(* time-update, overlay and pause subscribers called with the final time,  *)
(* and no frame data published.                                            *)
C17_EndOfTimelineStopsPlayback ==
    (FrameProcessed(lastOp) /\ currentVirtualTime >= timeline.duration) =>
        /\ ~isPlaying
        /\ ~isVirtualTimeRunning
        /\ elPaused
        /\ currentVirtualTime = timeline.duration
        /\ currentActiveSegment = NoSeg
        /\ notified = << <<"timeUpdate", timeline.duration>>,
                         <<"motionTextSeek", timeline.duration>>,
                         <<"pause", 0>> >>

C17_Witness ==
    /\ FrameProcessed(lastOp)
    /\ timeline.duration > 0
    /\ currentVirtualTime = timeline.duration
    /\ virtualTimePausedAt = timeline.duration
    /\ virtualTimeStartTimestamp > 0
    /\ elCurrentTime > 0
    /\ "pause" \in Channels(notified)

(* C18: completion is signalled once: when a frame (or the segment         *)
(* controller's timer) has completed playback at the end of the timeline,  *)
(* or of an empty timeline, and no play(), seek(), stop() or timeline      *)
(* update has followed, a frame tick of the animation-frame loop at a      *)
(* later time calls no pause, time-update or overlay subscriber.           *)
C18_CompletionSignalledOnce ==
    [][(completed /\ ~hasRVFC /\ lastOp.op = "tick" /\ lastOp'.op = "frame") =>
          Channels(notified') \cap {"pause", "timeUpdate", "motionTextSeek"} = {}]_vars

(* C19: when seek(x) returns, the tracked active segment is the enabled    *)
(* segment whose [virtualStartTime, virtualEndTime) contains the clamped   *)
(* time (none if there is none), and the element stands, within the drift  *)
(* threshold, at that segment's realStartTime + (x' - virtualStartTime).   *)
C19_SeekRecomputesActiveSegment ==
    (lastOp.op = "seek" /\ lastOp.ran) =>
        LET seg == SegmentAt(timeline, currentVirtualTime)
        IN /\ currentActiveSegment = seg
           /\ seg # NoSeg =>
                 Abs(elCurrentTime
                       - (seg.realStartTime
                            + (currentVirtualTime - seg.virtualStartTime)))
                     <= DriftThresholdMs

(* C20: native play, pause and ended events do not override what the       *)
(* controller decided: the playing flag is set only while the virtual      *)
(* clock runs; after pause() a native play event neither sets the flag nor *)
(* lets the next frame restart the element; and while the clock runs after *)
(* play(), the pause event of the element that the controller itself       *)
(* paused for a gap leaves the flag set.                                   *)
C20_NativeEventsDoNotOverride ==
    /\ [](isPlaying => isVirtualTimeRunning)
    /\ [][(held = "paused" /\ lastOp'.op \in {"handleVideoPlay", "frame"}) =>
            (~isPlaying' /\ elPaused')]_vars
    /\ [][(/\ lastOp'.op = "handleVideoPause"
           /\ isPlaying /\ isVirtualTimeRunning
           /\ currentActiveSegment = NoSeg
           /\ InGap(timeline, currentVirtualTime)) => isPlaying']_vars

(* C21: a native seeked event resynchronizes the virtual time from the     *)
(* element's position: when the position maps into an enabled segment the *)
(* virtual time becomes that mapping, the seek subscribers are called with *)
(* it, and while playing the clock reference is such that frames advance   *)
(* from the new value; when the position maps nowhere, the virtual time is *)
(* unchanged and nobody is notified.                                       *)
C21_SeekedResynchronizesClock ==
    [][(lastOp'.op = "handleVideoSeeked" /\ lastOp'.ran /\ video) =>
          LET mapping == toVirtual(timeline, elCurrentTime)
          IN IF mapping.isValid
             THEN /\ currentVirtualTime' = mapping.virtualTime
                  /\ notified' = << <<"seek", mapping.virtualTime>> >>
                  /\ (isPlaying' /\ isVirtualTimeRunning') =>
                        Min(virtualTimePausedAt'
                              + (now' - virtualTimeStartTimestamp') * playbackRate',
                            timeline.duration) = mapping.virtualTime
             ELSE /\ currentVirtualTime' = currentVirtualTime
                  /\ notified' = << >>]_vars

(* C22: handleTimelineUpdate resets the tracking of the active segment:    *)
(* when it has returned no segment is tracked, and a seek() that follows   *)
(* never positions the element with a segment that is not part of the      *)
(* timeline in force.                                                      *)
C22_TimelineUpdateResetsTracking ==
    /\ lastOp.op = "handleTimelineUpdate" => currentActiveSegment = NoSeg
    /\ (lastOp.op = "seek" /\ lastOp.ran /\ currentActiveSegment # NoSeg) =>
          \E i \in 1..Len(timeline.segments) :
              timeline.segments[i] = currentActiveSegment

(* C23: when handleTimelineUpdate finds the element outside every enabled  *)
(* segment of the new timeline while the controller is not playing, the    *)
(* element is put at the real start of the first enabled segment of the    *)
(* edited sequence, the virtual time becomes that segment's virtual start  *)
(* and the time-update and overlay subscribers are called with it; when    *)
(* the element is inside an enabled segment its position is kept and the   *)
(* virtual time is only clamped to the new duration.                       *)
C23_PausedUpdateSnapsToFirstSegment ==
    [][(/\ lastOp'.op = "handleTimelineUpdate"
        /\ video /\ ~isPlaying
        /\ EnabledIdx(timeline') # {}) =>
          IF toVirtual(timeline', elCurrentTime).isValid
          THEN /\ elCurrentTime' = elCurrentTime
               /\ currentVirtualTime' = Min(currentVirtualTime, timeline'.duration)
               /\ Channels(notified') = {"timelineChange"}
          ELSE LET first == FirstOfSequence(timeline')
               IN /\ elCurrentTime' = first.realStartTime
                  /\ currentVirtualTime' = first.virtualStartTime
                  /\ notified' = << <<"timeUpdate", first.virtualStartTime>>,
                                    <<"motionTextSeek", first.virtualStartTime>>,
                                    <<"timelineChange", timeline'.duration>> >>]_vars

(* C24: the session state ends with the attachment: when detachVideo()    *)
(* has returned from a state with a video attached, the controller is not  *)
(* playing, its virtual clock is not running, the virtual time and the     *)
(* clock reference are 0 and no active segment is tracked.                 *)
C24_DetachDiscardsSessionState ==
    (lastOp.op = "detachVideo" /\ lastOp.ran) =>
        /\ ~video
        /\ ~isPlaying
        /\ ~isVirtualTimeRunning
        /\ currentVirtualTime = 0
        /\ virtualTimePausedAt = 0
        /\ currentActiveSegment = NoSeg

(* C25: play() on an attached controller leaves the element alone, sets    *)
(* the playing flag and calls the play subscribers; from then on, until    *)
(* pause(), stop() or the end of the timeline, a processed frame whose     *)
(* virtual time lies in an enabled segment leaves the element within the   *)
(* drift threshold of the mapped real time and not paused.                 *)
C25_PlayTakesEffectOnNextFrame ==
    /\ [][(lastOp'.op = "play" /\ lastOp'.ran) =>
            /\ isPlaying'
            /\ notified' = << <<"play", 0>> >>
            /\ UNCHANGED <<elCurrentTime, elPaused, elEvents>>]_vars
    /\ [][(FrameProcessed(lastOp') /\ isVirtualTimeRunning) =>
            LET seg == SegmentAt(timeline, currentVirtualTime')
            IN (currentVirtualTime' < timeline.duration /\ seg # NoSeg) =>
                  /\ Abs(elCurrentTime'
                          - (seg.realStartTime
                               + (currentVirtualTime' - seg.virtualStartTime)))
                        <= DriftThresholdMs
                  /\ ~elPaused']_vars

(* C26: playback does not stall: once play() has started the clock on an  *)
(* attached video, early enough for the clock to reach the duration, and   *)
(* frames keep coming with no further command, a frame eventually finds    *)
(* the virtual time at the duration and completes playback, whatever       *)
(* events the element raises and whether or not the timeline has gaps.     *)
C26_PlaybackDoesNotStall ==
    (/\ lastOp.op = "play" /\ lastOp.ran
     /\ timeline.duration - virtualTimePausedAt
            <= (PlayMaxNow - virtualTimeStartTimestamp) * playbackRate)
        ~> (completed /\ currentVirtualTime = timeline.duration /\ ~isPlaying)

C28_SeekSurvivesItsSeekedEvent ==
    [][(/\ lastOp.op = "seek" /\ lastOp.ran
        /\ seekInFlight.left > 0
        /\ Cardinality({i \in 1..Len(elEvents) : elEvents[i] = "seeked"}) = 1
        /\ lastOp'.op = "handleVideoSeeked" /\ lastOp'.ran) =>
          currentVirtualTime' = Max(0, Min(lastOp.arg, timeline.duration))]_vars

(* C29: setPlaybackRate(r) during playback does not move the playhead: the *)
(* virtual time the clock yields at the instant of the call is the same    *)
(* before and after the call, so that the next processed frame adds to it  *)
(* only the time elapsed since the call, multiplied by r; the time already *)
(* played is not rescaled by the new rate.                                 *)
C29_RateChangeKeepsPlayhead ==
    [][(/\ lastOp'.op = "setPlaybackRate" /\ lastOp'.ran
        /\ isPlaying /\ isVirtualTimeRunning) =>
          Min(virtualTimePausedAt'
                + (now' - virtualTimeStartTimestamp') * playbackRate',
              timeline.duration)
            = Min(virtualTimePausedAt
                    + (now - virtualTimeStartTimestamp) * playbackRate,
                  timeline.duration)]_vars

(* C30: at most one frame-update loop is alive: whatever attachVideo and   *)
(* detachVideo calls were made, at most one frame callback of the          *)
(* controller is pending, on the video-frame path and on the               *)
(* animation-frame path together, and none while no video is attached.     *)
C30_SingleFrameLoop ==
    /\ rafPending + (IF elFrameCb THEN 1 ELSE 0) <= 1
    /\ ~video => (rafPending = 0 /\ ~elFrameCb)

(* C5: after handleTimelineUpdate with a duration below the virtual time,  *)
(* the virtual time is at most the new duration, and frame updates keep it *)
(* there.                                                                  *)
C5_TimelineUpdateClamps ==
    lastOp.op \in {"handleTimelineUpdate", "frame"} =>
        currentVirtualTime <= timeline.duration

C5_Witness ==
    /\ lastOp.op = "handleTimelineUpdate"
    /\ lastOp.arg > timeline.duration
    /\ currentVirtualTime = timeline.duration
    /\ isVirtualTimeRunning

(* C9: pause() on an attached controller leaves the element paused, the    *)
(* controller not playing and the virtual time where it was; no frame      *)
(* changes it until play(), seek(), stop(), a timeline update or a native  *)
(* seeked event.                                                           *)
C9_PauseFreezesVirtualTime ==
    /\ [](lastOp.op = "pause" /\ lastOp.ran =>
            /\ elPaused
            /\ ~isPlaying
            /\ ~isVirtualTimeRunning
            /\ currentVirtualTime = lastOp.arg)
    /\ [][(lastOp'.op = "frame" /\ held = "paused")
            => currentVirtualTime' = currentVirtualTime]_vars

C9_Witness ==
    /\ held = "paused"
    /\ FrameProcessed(lastOp)
    /\ currentVirtualTime > 0
    /\ currentVirtualTime < timeline.duration
    /\ now > virtualTimeStartTimestamp
    /\ virtualTimeStartTimestamp > 0

C14_EndOfTimelineIsMapped ==
    (/\ query.op \in {"virtualToReal", "activeSegment"}
     /\ timeline.duration > 0
     /\ query.arg = timeline.duration) =>
        LET last == CHOOSE i \in EnabledIdx(timeline) :
                        \A j \in EnabledIdx(timeline) : j <= i
        IN /\ query.isValid
           /\ query.res = timeline.segments[last].realEndTime

====
